---- MODULE Spec2Model ----
(***************************************************************************)
(* vkinfo (vulkan/tools/vkinfo.cpp): gather the Vulkan capability snapshot  *)
(* (GatherInfo, GatherGpuInfo, Enumerate*Extensions), then render it        *)
(* (PrintInfo, PrintGpuInfo, PrintLayers, PrintExtensions).                 *)
(*                                                                         *)
(* The program is sequential; pc is the position in main's call tree.  The  *)
(* Vulkan runtime is the environment: every status-returning call may       *)
(* answer VK_SUCCESS, VK_INCOMPLETE or an error, and every enumeration may  *)
(* report any count in 0..MaxCount.  A run's nominal answers are "MaxCount  *)
(* items, buffer filled"; the answers that differ from that without ending  *)
(* the run (another count, VK_INCOMPLETE on a fetch, a fetch that writes    *)
(* fewer items than the buffer holds) are counted in `deviations` and       *)
(* bounded per run.  Answers that end the run are not bounded.              *)
(*                                                                         *)
(* Output is modelled as text: stdout and stderr are sequences of lines,    *)
(* each line the string the printf call produces.                           *)
(***************************************************************************)
EXTENDS Integers, Sequences, FiniteSets, TLC

VARIABLES
    pc,          \* position in the program
    info,        \* VulkanInfo info (main)
    count,       \* uint32_t count of the active frame
    layer,       \* which Enumerate*Extensions call: 0 = nullptr, i = layers[i-1]
    gpus,        \* std::vector<VkPhysicalDevice> gpus (GatherInfo)
    num_gpus,    \* uint32_t num_gpus (GatherInfo)
    gpu,         \* loop index i of GatherInfo's device loop, 1-based
    live,        \* handles created and not yet destroyed
    destroyed,   \* handles destroyed
    ncalls,      \* how many runtime calls were made so far
    lastCall,    \* the latest of them: proc, arg, result, reported count
    retries,     \* VK_INCOMPLETE answers seen by the enumeration in progress
    lastEnum,    \* the enumeration that completed last: what, retries, reported, length
    deviations,  \* answers so far that differ from the nominal run
    budget,      \* how many such answers this run may contain
    out,         \* lines written to standard output
    err,         \* lines written to standard error
    exit,        \* "running", or how the process ended: "0", "1", "abort"
    world        \* what the runtime reports of a device: apiVersion, memory

vars == <<pc, info, count, layer, gpus, num_gpus, gpu, live, destroyed, ncalls, lastCall,
          retries, lastEnum, deviations, budget, out, err, exit, world>>

----------------------------------------------------------------------------
(* Bounds of the model *)

\* Largest count the runtime reports; also the count of the nominal run.
MaxCount == 2
\* Non-fatal answers off the nominal run that one behaviour of Spec may contain.
MaxDeviations == 1
\* Memory heaps and memory types of a rendered device (SpecMemory).
MaxHeaps == 2
MaxTypes == 2
\* Version fields are drawn within EdgeWidth of 0 and of the field's maximum.
EdgeWidth == 1

----------------------------------------------------------------------------
(* VkResult values named by die's switch *)

VK_SUCCESS == 0
VK_INCOMPLETE == 5
VK_ERROR_INITIALIZATION_FAILED == -3
\* A value die's switch has no case for.
UnknownResult == -1000

Errors == {VK_ERROR_INITIALIZATION_FAILED, UnknownResult}

\* Flag bits tested by PrintGpuInfo.
VK_MEMORY_HEAP_DEVICE_LOCAL_BIT == 1
VK_MEMORY_PROPERTY_DEVICE_LOCAL_BIT == 1
VK_MEMORY_PROPERTY_HOST_VISIBLE_BIT == 2
VK_MEMORY_PROPERTY_HOST_COHERENT_BIT == 4
VK_MEMORY_PROPERTY_HOST_CACHED_BIT == 8
VK_MEMORY_PROPERTY_LAZILY_ALLOCATED_BIT == 16
VK_QUEUE_GRAPHICS_BIT == 1
VK_QUEUE_COMPUTE_BIT == 2
VK_QUEUE_TRANSFER_BIT == 4
VK_QUEUE_SPARSE_BINDING_BIT == 8

\* (flags & bit) != 0 for a single-bit mask.
HasBit(flags, bit) == (flags \div bit) % 2 = 1

----------------------------------------------------------------------------
(* printf conversions *)

Digit(d) == SubSeq("0123456789abcdef", d + 1, d + 1)

RECURSIVE Dec(_)
\* %u, %zu, PRIu64
Dec(n) == IF n < 10 THEN Digit(n) ELSE Dec(n \div 10) \o Digit(n % 10)

\* %d
SDec(n) == IF n < 0 THEN "-" \o Dec(0 - n) ELSE Dec(n)

RECURSIVE Hex(_)
\* %x, PRIx64
Hex(n) == IF n < 16 THEN Digit(n) ELSE Hex(n \div 16) \o Digit(n % 16)

\* %#x: the 0x prefix is added to a nonzero value only
HexAlt(n) == IF n = 0 THEN "0" ELSE "0x" \o Hex(n)

RECURSIVE ZeroPad(_, _)
ZeroPad(s, w) == IF Len(s) >= w THEN s ELSE ZeroPad("0" \o s, w)

\* %04x
Hex04(n) == ZeroPad(Hex(n), 4)

RECURSIVE Concat(_)
\* the lines of several printf calls, in order
Concat(ss) == IF ss = <<>> THEN <<>> ELSE Head(ss) \o Concat(Tail(ss))

----------------------------------------------------------------------------
(* Values of the snapshot *)

VK_NULL_HANDLE == 0

\* layer_name == nullptr
NullName == "(null)"

\* What std::vector::resize appends: value-initialised elements.
ZeroExtension == [extensionName |-> "", specVersion |-> 0]
ZeroLayer == [layerName |-> "", specVersion |-> [hi |-> 0, lo |-> 0], implementationVersion |-> 0,
              description |-> ""]
ZeroQueueFamily == [queueFlags |-> 0, queueCount |-> 0, timestampValidBits |-> 0,
                    minImageTransferGranularity |-> <<0, 0, 0>>]
ZeroGpuInfo == [properties |-> [deviceName |-> "", deviceType |-> 0,
                                apiVersion |-> [hi |-> 0, lo |-> 0],
                                driverVersion |-> 0, vendorID |-> 0, deviceID |-> 0],
                memory |-> [memoryTypeCount |-> 0, memoryTypes |-> <<>>,
                            memoryHeapCount |-> 0, memoryHeaps |-> <<>>],
                features |-> 0,
                queue_families |-> <<>>, extensions |-> <<>>, layers |-> <<>>,
                layer_extensions |-> <<>>]

\* v.resize(n) and v.resize(n, zero)
Resize(v, n, zero) == [k \in 1..n |-> IF k <= Len(v) THEN v[k] ELSE zero]

\* The runtime stores item[1] .. item[w] in the first w places of the buffer.
Store(buf, w, item) == [k \in 1..Len(buf) |-> IF k <= w THEN item[k] ELSE buf[k]]

Min(a, b) == IF a < b THEN a ELSE b

----------------------------------------------------------------------------
(* The runtime's data.  scope is "instance" or the device's name. *)

VK_EXT_DEBUG_REPORT_EXTENSION_NAME == "VK_EXT_debug_report"
VK_KHR_SWAPCHAIN_EXTENSION_NAME == "VK_KHR_swapchain"

DeviceName(h) == "gpu" \o Dec(h)

\* A uint32_t as its two 16-bit halves (the value is hi * 2^16 + lo): TLC's
\* integers are signed 32-bit and cannot hold a major version above 511.
Word32(hi, lo) == [hi |-> hi, lo |-> lo]

\* (major << 22) | (minor << 12) | patch, as VK_MAKE_VERSION packs it:
\* major in bits 31..22, minor in bits 21..12, patch in bits 11..0
MakeVersion(major, minor, patch) ==
    Word32(major * 64 + minor \div 16, (minor % 16) * 4096 + patch)

\* k-th extension the runtime returns for a query with layer name `name`
RtExtension(scope, name, k) ==
    [extensionName |->
        IF name = NullName /\ k = 1
        THEN (IF scope = "instance" THEN VK_EXT_DEBUG_REPORT_EXTENSION_NAME
                                    ELSE VK_KHR_SWAPCHAIN_EXTENSION_NAME)
        ELSE "VK_" \o scope \o "_" \o name \o "_ext" \o Dec(k),
     specVersion |-> k]

\* k-th layer the runtime returns
RtLayer(scope, k) ==
    [layerName |-> "VK_LAYER_" \o scope \o "_" \o Dec(k),
     specVersion |-> MakeVersion(1, 0, k),
     implementationVersion |-> k,
     description |-> "layer " \o Dec(k) \o " of " \o scope]

\* k-th queue family of device h
RtQueueFamily(h, k) ==
    [queueFlags |-> IF k = 1 THEN VK_QUEUE_GRAPHICS_BIT + VK_QUEUE_COMPUTE_BIT
                             ELSE VK_QUEUE_TRANSFER_BIT,
     queueCount |-> k, timestampValidBits |-> 36,
     minImageTransferGranularity |-> <<1, 1, 1>>]

RtProperties(h) ==
    [deviceName |-> DeviceName(h), deviceType |-> 2,
     apiVersion |-> world.apiVersion, driverVersion |-> 16 * h,
     vendorID |-> 4098, deviceID |-> h]

RtMemory(h) == world.memory

RtFeatures(h) == h

----------------------------------------------------------------------------
(* The runtime's answers.  dev = 1 marks an answer off the nominal run that  *)
(* lets the program go on.                                                   *)

\* A count query (pProperties == nullptr).
CountAnswers ==
       { [res |-> VK_SUCCESS, n |-> c, dev |-> IF c = MaxCount THEN 0 ELSE 1] :
            c \in 0..MaxCount }
  \cup { [res |-> r, n |-> 0, dev |-> 0] : r \in {VK_INCOMPLETE} \cup Errors }

\* A fetch into a buffer of `size` elements: success reports at most size.
FetchAnswers(size) ==
       { [res |-> VK_SUCCESS, n |-> c, dev |-> IF c = size THEN 0 ELSE 1] :
            c \in 0..size }
  \cup { [res |-> VK_INCOMPLETE, n |-> c, dev |-> 1] : c \in 0..MaxCount }
  \cup { [res |-> r, n |-> 0, dev |-> 0] : r \in Errors }

\* vkGetPhysicalDeviceQueueFamilyProperties returns void: a count only.
VoidCountAnswers ==
    { [res |-> VK_SUCCESS, n |-> c, dev |-> IF c = MaxCount THEN 0 ELSE 1] :
         c \in 0..MaxCount }

VoidFetchAnswers(size) ==
    { [res |-> VK_SUCCESS, n |-> c, dev |-> IF c = size THEN 0 ELSE 1] :
         c \in 0..size }

\* vkCreateInstance, vkCreateDevice
CreateAnswers ==
    { [res |-> r, n |-> 0, dev |-> 0] : r \in {VK_SUCCESS, VK_INCOMPLETE} \cup Errors }

Allowed(a) == deviations + a.dev <= budget

\* The call is made and answered.
Call(proc, arg, a) ==
    /\ ncalls' = ncalls + 1
    /\ lastCall' = [proc |-> proc, arg |-> arg, result |-> a.res, reported |-> a.n]
    /\ deviations' = deviations + a.dev

\* A call that returns nothing (void) and cannot deviate.
VoidCall(proc, arg) ==
    /\ ncalls' = ncalls + 1
    /\ lastCall' = [proc |-> proc, arg |-> arg, result |-> VK_SUCCESS, reported |-> 0]

----------------------------------------------------------------------------
(* die *)

ResultStr(result) ==
    CASE result = VK_SUCCESS -> "VK_SUCCESS"
      [] result = VK_INCOMPLETE -> "VK_INCOMPLETE"
      [] result = VK_ERROR_INITIALIZATION_FAILED -> "VK_ERROR_INITIALIZATION_FAILED"
      [] OTHER -> "<unknown VkResult>"

DieLine(proc, result) ==
    proc \o " failed: " \o ResultStr(result) \o " (" \o SDec(result) \o ")"

\* The process has ended: info and the locals no longer exist.  What stays is
\* what the outside sees: the two streams, the exit status, the runtime's handles.
Gone ==
    /\ info' = [extensions |-> <<>>, layers |-> <<>>, layer_extensions |-> <<>>,
                gpus |-> <<>>]
    /\ count' = 0
    /\ layer' = 0
    /\ gpus' = <<>>
    /\ num_gpus' = 0
    /\ gpu' = 1
    /\ retries' = 0
    /\ lastEnum' = [what |-> "", retries |-> 0, reported |-> 0, length |-> 0]

\* Fault variant of die: the line is written but the status is 0.
die_ExitsZero(proc, result) ==
    /\ err' = Append(err, DieLine(proc, result))
    /\ exit' = "0"
    /\ pc' = "exited"
    /\ Gone

\* fprintf(stderr, ...); exit(1)
die(proc, result) ==
    /\ err' = Append(err, DieLine(proc, result))
    /\ exit' = "1"
    /\ pc' = "exited"
    /\ Gone

\* The program goes on at `next`.
Goto(next) ==
    /\ pc' = next
    /\ UNCHANGED <<err, exit>>

----------------------------------------------------------------------------
(* HasExtension and the choice of the extensions to enable *)

HasExtension(extensions, name) ==
    \E k \in 1..Len(extensions) : extensions[k].extensionName = name

\* num_extensions after the loop over the (single) desired extension
NumExtensions(extensions, layer_extensions, desired_ext) ==
    IF \/ HasExtension(extensions, desired_ext)
       \/ \E i \in 1..Len(layer_extensions) :
              HasExtension(layer_extensions[i], desired_ext)
    THEN 1 ELSE 0

\* Fault variant of the loop condition: the fetch is never repeated.
LoopAgain_Never(result) == FALSE

\* } while (result == VK_INCOMPLETE);
LoopAgain(result) == result = VK_INCOMPLETE

\* What an enumeration left behind when its fetch returned VK_SUCCESS.
Enumerated(proc, a, buf) ==
    [what |-> proc, retries |-> retries, reported |-> a.n, length |-> Len(buf)]

----------------------------------------------------------------------------
(* GatherInfo: instance layers *)

GatherInfo_LayersCount ==
    /\ pc = "GatherInfo:layers(count)"
    /\ \E a \in CountAnswers :
        /\ Allowed(a)
        /\ Call("vkEnumerateInstanceLayerProperties (count)", 0, a)
        /\ IF a.res # VK_SUCCESS
           THEN die("vkEnumerateInstanceLayerProperties (count)", a.res)
           ELSE /\ count' = a.n
                /\ retries' = 0
                /\ Goto("GatherInfo:layers(data)")
                /\ UNCHANGED <<info, layer, gpus, num_gpus, gpu, lastEnum>>
    /\ UNCHANGED <<live, destroyed, budget, out, world>>

GatherInfo_LayersData ==
    /\ pc = "GatherInfo:layers(data)"
    /\ LET buf == Resize(info.layers, count, ZeroLayer) IN
       \E a \in FetchAnswers(Len(buf)) :
        /\ Allowed(a)
        /\ Call("vkEnumerateInstanceLayerProperties (data)", Len(buf), a)
        /\ LET got == Store(buf, Min(a.n, Len(buf)), [k \in 1..Len(buf) |-> RtLayer("instance", k)]) IN
           CASE LoopAgain(a.res) ->
                  /\ info' = [info EXCEPT !.layers = got]
                  /\ count' = a.n
                  /\ retries' = retries + 1
                  /\ Goto("GatherInfo:layers(data)")
                  /\ UNCHANGED <<layer, gpus, num_gpus, gpu, lastEnum>>
             [] a.res = VK_SUCCESS ->
                  /\ info' = [info EXCEPT !.layers = got,
                                          !.layer_extensions = Resize(@, Len(got), <<>>)]
                  /\ count' = a.n
                  /\ lastEnum' = Enumerated("vkEnumerateInstanceLayerProperties", a,
                                            info'.layers)
                  /\ layer' = 0
                  /\ Goto("EnumerateInstanceExtensions(count)")
                  /\ UNCHANGED <<gpus, num_gpus, gpu, retries>>
             [] OTHER -> die("vkEnumerateInstanceLayerProperties (data)", a.res)
    /\ UNCHANGED <<live, destroyed, budget, out, world>>

----------------------------------------------------------------------------
(* EnumerateInstanceExtensions(layer_name, extensions) *)

\* the arguments of the call in progress
InstanceLayerName == IF layer = 0 THEN NullName ELSE info.layers[layer].layerName
InstanceExtensions == IF layer = 0 THEN info.extensions ELSE info.layer_extensions[layer]
WithInstanceExtensions(buf) ==
    IF layer = 0 THEN [info EXCEPT !.extensions = buf]
                 ELSE [info EXCEPT !.layer_extensions[layer] = buf]

EnumerateInstanceExtensions_Count ==
    /\ pc = "EnumerateInstanceExtensions(count)"
    /\ \E a \in CountAnswers :
        /\ Allowed(a)
        /\ Call("vkEnumerateInstanceExtensionProperties (count)", 0, a)
        /\ IF a.res # VK_SUCCESS
           THEN die("vkEnumerateInstanceExtensionProperties (count)", a.res)
           ELSE /\ count' = a.n
                /\ retries' = 0
                /\ Goto("EnumerateInstanceExtensions(data)")
                /\ UNCHANGED <<info, layer, gpus, num_gpus, gpu, lastEnum>>
    /\ UNCHANGED <<live, destroyed, budget, out, world>>

EnumerateInstanceExtensions_Data ==
    /\ pc = "EnumerateInstanceExtensions(data)"
    /\ LET buf == Resize(InstanceExtensions, count, ZeroExtension) IN
       \E a \in FetchAnswers(Len(buf)) :
        /\ Allowed(a)
        /\ Call("vkEnumerateInstanceExtensionProperties (data)", Len(buf), a)
        /\ LET got == Store(buf, Min(a.n, Len(buf)),
                            [k \in 1..Len(buf) |-> RtExtension("instance", InstanceLayerName, k)]) IN
           CASE LoopAgain(a.res) ->
                  /\ info' = WithInstanceExtensions(got)
                  /\ count' = a.n
                  /\ retries' = retries + 1
                  /\ Goto("EnumerateInstanceExtensions(data)")
                  /\ UNCHANGED <<layer, gpus, num_gpus, gpu, lastEnum>>
             [] a.res = VK_SUCCESS ->
                  /\ info' = WithInstanceExtensions(got)
                  /\ count' = a.n
                  /\ lastEnum' = Enumerated("vkEnumerateInstanceExtensionProperties", a,
                                            got)
                  \* back in GatherInfo: the loop over the layers, then line 207
                  /\ IF layer < Len(info.layers)
                     THEN layer' = layer + 1 /\ Goto("EnumerateInstanceExtensions(count)")
                     ELSE layer' = layer /\ Goto("GatherInfo:vkCreateInstance")
                  /\ UNCHANGED <<gpus, num_gpus, gpu, retries>>
             [] OTHER -> die("vkEnumerateInstanceExtensionProperties (data)", a.res)
    /\ UNCHANGED <<live, destroyed, budget, out, world>>

----------------------------------------------------------------------------
(* GatherInfo: the instance and the physical devices *)

GatherInfo_CreateInstance ==
    /\ pc = "GatherInfo:vkCreateInstance"
    /\ \E a \in CreateAnswers :
        /\ Call("vkCreateInstance",
                NumExtensions(info.extensions, info.layer_extensions,
                              VK_EXT_DEBUG_REPORT_EXTENSION_NAME), a)
        /\ IF a.res # VK_SUCCESS
           THEN /\ die("vkCreateInstance", a.res)
                /\ UNCHANGED live
           ELSE /\ live' = live \cup {"instance"}
                /\ Goto("GatherInfo:gpus(count)")
                /\ UNCHANGED <<info, count, layer, gpus, num_gpus, gpu, retries,
                               lastEnum>>
    /\ UNCHANGED <<destroyed, budget, out, world>>

GatherInfo_GpusCount ==
    /\ pc = "GatherInfo:gpus(count)"
    /\ \E a \in CountAnswers :
        /\ Allowed(a)
        /\ Call("vkEnumeratePhysicalDevices (count)", 0, a)
        /\ IF a.res # VK_SUCCESS
           THEN die("vkEnumeratePhysicalDevices (count)", a.res)
           ELSE /\ num_gpus' = a.n
                /\ gpus' = [k \in 1..a.n |-> VK_NULL_HANDLE]
                /\ retries' = 0
                /\ Goto("GatherInfo:gpus(data)")
                /\ UNCHANGED <<info, count, layer, gpu, lastEnum>>
    /\ UNCHANGED <<live, destroyed, budget, out, world>>

GatherInfo_GpusData ==
    /\ pc = "GatherInfo:gpus(data)"
    /\ LET buf == Resize(gpus, num_gpus, VK_NULL_HANDLE) IN
       \E a \in FetchAnswers(Len(buf)) :
        /\ Allowed(a)
        /\ Call("vkEnumeratePhysicalDevices (data)", Len(buf), a)
        /\ LET got == Store(buf, Min(a.n, Len(buf)), [k \in 1..Len(buf) |-> k]) IN
           CASE LoopAgain(a.res) ->
                  /\ gpus' = got
                  /\ num_gpus' = a.n
                  /\ retries' = retries + 1
                  /\ Goto("GatherInfo:gpus(data)")
                  /\ UNCHANGED <<info, count, layer, gpu, lastEnum>>
             [] a.res = VK_SUCCESS ->
                  /\ gpus' = got
                  /\ num_gpus' = a.n
                  /\ lastEnum' = Enumerated("vkEnumeratePhysicalDevices", a, got)
                  /\ info' = [info EXCEPT !.gpus = Resize(@, a.n, ZeroGpuInfo)]
                  /\ gpu' = 1
                  /\ Goto("GatherInfo:loop")
                  /\ UNCHANGED <<count, layer, retries>>
             [] OTHER -> die("vkEnumeratePhysicalDevices (data)", a.res)
    /\ UNCHANGED <<live, destroyed, budget, out, world>>

\* for (i = 0; i < gpus.size(); i++) GatherGpuInfo(gpus[i], info->gpus.at(i));
\* at(i) past the end throws std::out_of_range, which nothing catches.
GatherInfo_Loop ==
    /\ pc = "GatherInfo:loop"
    /\ IF gpu > Len(gpus)
       THEN /\ Goto("GatherInfo:vkDestroyInstance")
            /\ UNCHANGED <<info, count, layer, gpus, num_gpus, gpu, retries, lastEnum>>
       ELSE IF gpu > Len(info.gpus)
       THEN /\ pc' = "aborted"
            /\ exit' = "abort"
            /\ err' \in {err, Append(err, "terminating due to uncaught exception")}
            /\ Gone
       ELSE /\ Goto("GatherGpuInfo:get")
            /\ UNCHANGED <<info, count, layer, gpus, num_gpus, gpu, retries, lastEnum>>
    /\ UNCHANGED <<live, destroyed, ncalls, lastCall, deviations, budget, out, world>>

GatherInfo_DestroyInstance ==
    /\ pc = "GatherInfo:vkDestroyInstance"
    /\ VoidCall("vkDestroyInstance", 0)
    /\ live' = live \ {"instance"}
    /\ destroyed' = destroyed \cup {"instance"}
    /\ Goto("PrintInfo")
    /\ UNCHANGED <<info, count, layer, gpus, num_gpus, gpu, retries, lastEnum,
                   deviations, budget, out, world>>

----------------------------------------------------------------------------
(* GatherGpuInfo(gpus[i], info->gpus.at(i)) *)

\* VkPhysicalDevice gpu; the runtime's name for it
Gpu == gpus[gpu]
Scope == DeviceName(Gpu)
Device == "device" \o Dec(gpu)

GatherGpuInfo_Get ==
    /\ pc = "GatherGpuInfo:get"
    \* vkGetPhysicalDeviceProperties, vkGetPhysicalDeviceMemoryProperties,
    \* vkGetPhysicalDeviceFeatures: three calls, none returns a status
    /\ ncalls' = ncalls + 3
    /\ lastCall' = [proc |-> "vkGetPhysicalDeviceFeatures", arg |-> Gpu,
                    result |-> VK_SUCCESS, reported |-> 0]
    /\ info' = [info EXCEPT !.gpus[gpu].properties = RtProperties(Gpu),
                            !.gpus[gpu].memory = RtMemory(Gpu),
                            !.gpus[gpu].features = RtFeatures(Gpu)]
    /\ Goto("GatherGpuInfo:queue_families(count)")
    /\ UNCHANGED <<count, layer, gpus, num_gpus, gpu, live, destroyed, retries,
                   lastEnum, deviations, budget, out, world>>

\* lines 127-128: the count query and the resize
GatherGpuInfo_QueueFamiliesCount ==
    /\ pc = "GatherGpuInfo:queue_families(count)"
    /\ \E a \in VoidCountAnswers :
        /\ Allowed(a)
        /\ Call("vkGetPhysicalDeviceQueueFamilyProperties (count)", 0, a)
        /\ count' = a.n
        /\ info' = [info EXCEPT !.gpus[gpu].queue_families =
                                    Resize(@, a.n, ZeroQueueFamily)]
    /\ retries' = 0
    /\ Goto("GatherGpuInfo:queue_families(data)")
    /\ UNCHANGED <<layer, gpus, num_gpus, gpu, live, destroyed, lastEnum, budget, out, world>>

\* Fault variant of the fetch: the list is cut to the count the fetch reports.
GatherGpuInfo_QueueFamiliesData_Resized ==
    /\ pc = "GatherGpuInfo:queue_families(data)"
    /\ LET buf == info.gpus[gpu].queue_families IN
       \E a \in VoidFetchAnswers(Len(buf)) :
        /\ Allowed(a)
        /\ Call("vkGetPhysicalDeviceQueueFamilyProperties (data)", Len(buf), a)
        /\ count' = a.n
        /\ info' = [info EXCEPT !.gpus[gpu].queue_families =
                        Resize(Store(buf, a.n, [k \in 1..Len(buf) |-> RtQueueFamily(gpus[gpu], k)]),
                               a.n, ZeroQueueFamily)]
        /\ lastEnum' = Enumerated("vkGetPhysicalDeviceQueueFamilyProperties", a,
                                  info'.gpus[gpu].queue_families)
    /\ Goto("GatherGpuInfo:layers(count)")
    /\ UNCHANGED <<layer, gpus, num_gpus, gpu, live, destroyed, retries, budget, out, world>>

\* lines 129-130: the one fetch; the call returns void
GatherGpuInfo_QueueFamiliesData ==
    /\ pc = "GatherGpuInfo:queue_families(data)"
    /\ LET buf == info.gpus[gpu].queue_families IN
       \E a \in VoidFetchAnswers(Len(buf)) :
        /\ Allowed(a)
        /\ Call("vkGetPhysicalDeviceQueueFamilyProperties (data)", Len(buf), a)
        /\ count' = a.n
        /\ info' = [info EXCEPT !.gpus[gpu].queue_families =
                        Store(buf, a.n, [k \in 1..Len(buf) |-> RtQueueFamily(Gpu, k)])]
        /\ lastEnum' = Enumerated("vkGetPhysicalDeviceQueueFamilyProperties", a,
                                  info'.gpus[gpu].queue_families)
    /\ Goto("GatherGpuInfo:layers(count)")
    /\ UNCHANGED <<layer, gpus, num_gpus, gpu, live, destroyed, retries, budget, out, world>>

GatherGpuInfo_LayersCount ==
    /\ pc = "GatherGpuInfo:layers(count)"
    /\ \E a \in CountAnswers :
        /\ Allowed(a)
        /\ Call("vkEnumerateDeviceLayerProperties (count)", 0, a)
        /\ IF a.res # VK_SUCCESS
           THEN die("vkEnumerateDeviceLayerProperties (count)", a.res)
           ELSE /\ count' = a.n
                /\ retries' = 0
                /\ Goto("GatherGpuInfo:layers(data)")
                /\ UNCHANGED <<info, layer, gpus, num_gpus, gpu, lastEnum>>
    /\ UNCHANGED <<live, destroyed, budget, out, world>>

GatherGpuInfo_LayersData ==
    /\ pc = "GatherGpuInfo:layers(data)"
    /\ LET buf == Resize(info.gpus[gpu].layers, count, ZeroLayer) IN
       \E a \in FetchAnswers(Len(buf)) :
        /\ Allowed(a)
        /\ Call("vkEnumerateDeviceLayerProperties (data)", Len(buf), a)
        /\ LET got == Store(buf, Min(a.n, Len(buf)), [k \in 1..Len(buf) |-> RtLayer(Scope, k)]) IN
           CASE LoopAgain(a.res) ->
                  /\ info' = [info EXCEPT !.gpus[gpu].layers = got]
                  /\ count' = a.n
                  /\ retries' = retries + 1
                  /\ Goto("GatherGpuInfo:layers(data)")
                  /\ UNCHANGED <<layer, gpus, num_gpus, gpu, lastEnum>>
             [] a.res = VK_SUCCESS ->
                  /\ info' = [info EXCEPT
                                !.gpus[gpu].layers = got,
                                !.gpus[gpu].layer_extensions = Resize(@, Len(got), <<>>)]
                  /\ count' = a.n
                  /\ lastEnum' = Enumerated("vkEnumerateDeviceLayerProperties", a,
                                            info'.gpus[gpu].layers)
                  /\ layer' = 0
                  /\ Goto("EnumerateDeviceExtensions(count)")
                  /\ UNCHANGED <<gpus, num_gpus, gpu, retries>>
             [] OTHER -> die("vkEnumerateDeviceLayerProperties (data)", a.res)
    /\ UNCHANGED <<live, destroyed, budget, out, world>>

----------------------------------------------------------------------------
(* EnumerateDeviceExtensions(gpu, layer_name, extensions) *)

DeviceLayerName ==
    IF layer = 0 THEN NullName ELSE info.gpus[gpu].layers[layer].layerName
DeviceExtensions ==
    IF layer = 0 THEN info.gpus[gpu].extensions
                 ELSE info.gpus[gpu].layer_extensions[layer]
WithDeviceExtensions(buf) ==
    IF layer = 0 THEN [info EXCEPT !.gpus[gpu].extensions = buf]
                 ELSE [info EXCEPT !.gpus[gpu].layer_extensions[layer] = buf]

EnumerateDeviceExtensions_Count ==
    /\ pc = "EnumerateDeviceExtensions(count)"
    /\ \E a \in CountAnswers :
        /\ Allowed(a)
        /\ Call("vkEnumerateDeviceExtensionProperties (count)", 0, a)
        /\ IF a.res # VK_SUCCESS
           THEN die("vkEnumerateDeviceExtensionProperties (count)", a.res)
           ELSE /\ count' = a.n
                /\ retries' = 0
                /\ Goto("EnumerateDeviceExtensions(data)")
                /\ UNCHANGED <<info, layer, gpus, num_gpus, gpu, lastEnum>>
    /\ UNCHANGED <<live, destroyed, budget, out, world>>

EnumerateDeviceExtensions_Data ==
    /\ pc = "EnumerateDeviceExtensions(data)"
    /\ LET buf == Resize(DeviceExtensions, count, ZeroExtension) IN
       \E a \in FetchAnswers(Len(buf)) :
        /\ Allowed(a)
        /\ Call("vkEnumerateDeviceExtensionProperties (data)", Len(buf), a)
        /\ LET got == Store(buf, Min(a.n, Len(buf)),
                            [k \in 1..Len(buf) |-> RtExtension(Scope, DeviceLayerName, k)]) IN
           CASE LoopAgain(a.res) ->
                  /\ info' = WithDeviceExtensions(got)
                  /\ count' = a.n
                  /\ retries' = retries + 1
                  /\ Goto("EnumerateDeviceExtensions(data)")
                  /\ UNCHANGED <<layer, gpus, num_gpus, gpu, lastEnum>>
             [] a.res = VK_SUCCESS ->
                  /\ info' = WithDeviceExtensions(got)
                  /\ count' = a.n
                  /\ lastEnum' = Enumerated("vkEnumerateDeviceExtensionProperties", a,
                                            got)
                  \* back in GatherGpuInfo: the loop over the layers, then line 150
                  /\ IF layer < Len(info.gpus[gpu].layers)
                     THEN layer' = layer + 1 /\ Goto("EnumerateDeviceExtensions(count)")
                     ELSE layer' = layer /\ Goto("GatherGpuInfo:vkCreateDevice")
                  /\ UNCHANGED <<gpus, num_gpus, gpu, retries>>
             [] OTHER -> die("vkEnumerateDeviceExtensionProperties (data)", a.res)
    /\ UNCHANGED <<live, destroyed, budget, out, world>>

----------------------------------------------------------------------------
(* GatherGpuInfo: the trial device *)

GatherGpuInfo_CreateDevice ==
    /\ pc = "GatherGpuInfo:vkCreateDevice"
    /\ \E a \in CreateAnswers :
        /\ Call("vkCreateDevice",
                NumExtensions(info.gpus[gpu].extensions, info.gpus[gpu].layer_extensions,
                              VK_KHR_SWAPCHAIN_EXTENSION_NAME), a)
        /\ IF a.res # VK_SUCCESS
           THEN /\ die("vkCreateDevice", a.res)
                /\ UNCHANGED live
           ELSE /\ live' = live \cup {Device}
                /\ Goto("GatherGpuInfo:vkDestroyDevice")
                /\ UNCHANGED <<info, count, layer, gpus, num_gpus, gpu, retries,
                               lastEnum>>
    /\ UNCHANGED <<destroyed, budget, out, world>>

\* Fault variant of line 182: the trial device is not destroyed.
GatherGpuInfo_DestroyDevice_Skipped ==
    /\ pc = "GatherGpuInfo:vkDestroyDevice"
    /\ VoidCall("vkDestroyDevice", gpu)
    /\ gpu' = gpu + 1
    /\ Goto("GatherInfo:loop")
    /\ UNCHANGED <<info, count, layer, gpus, num_gpus, retries, lastEnum, deviations,
                   budget, out, world, live, destroyed>>

\* line 182, then GatherInfo's i++
GatherGpuInfo_DestroyDevice ==
    /\ pc = "GatherGpuInfo:vkDestroyDevice"
    /\ VoidCall("vkDestroyDevice", gpu)
    /\ live' = live \ {Device}
    /\ destroyed' = destroyed \cup {Device}
    /\ gpu' = gpu + 1
    /\ Goto("GatherInfo:loop")
    /\ UNCHANGED <<info, count, layer, gpus, num_gpus, retries, lastEnum, deviations,
                   budget, out, world>>

----------------------------------------------------------------------------
(* Rendering *)

\* (version >> 22) & 0x3FF on the two halves: bits 31..22 are bits 15..6 of hi
ExtractMajorVersion(version) == (version.hi \div 64) % 1024
\* Fault variant of ExtractMinorVersion: the six bits of the upper half are lost.
ExtractMinorVersion_LowHalf(version) == (version.lo \div 4096) % 1024
\* (version >> 12) & 0x3FF: bits 21..16 are bits 5..0 of hi, bits 15..12 are in lo
ExtractMinorVersion(version) == ((version.hi * 16) + (version.lo \div 4096)) % 1024
\* (version >> 0) & 0xFFF
ExtractPatchVersion(version) == version.lo % 4096

\* "%u.%u.%u"
VersionStr(version) ==
    Dec(ExtractMajorVersion(version)) \o "." \o Dec(ExtractMinorVersion(version))
        \o "." \o Dec(ExtractPatchVersion(version))

VkPhysicalDeviceTypeStr(type) ==
    CASE type = 0 -> "OTHER"
      [] type = 1 -> "INTEGRATED_GPU"
      [] type = 2 -> "DISCRETE_GPU"
      [] type = 3 -> "VIRTUAL_GPU"
      [] type = 4 -> "CPU"
      [] OTHER -> "<UNKNOWN>"

PrintExtensions(extensions, prefix) ==
    [k \in 1..Len(extensions) |->
        prefix \o extensions[k].extensionName \o " (v"
               \o Dec(extensions[k].specVersion) \o ")"]

\* the lines printed for layers[i]
PrintLayer(layers, extensions, prefix, i) ==
       << prefix \o layers[i].layerName \o " " \o VersionStr(layers[i].specVersion)
                 \o "/" \o Dec(layers[i].implementationVersion),
          prefix \o "  " \o layers[i].description >>
    \o (IF extensions[i] # <<>>
        THEN << prefix \o "  Extensions [" \o Dec(Len(extensions[i])) \o "]:" >>
        ELSE <<>>)
    \o PrintExtensions(extensions[i], prefix \o "    ")

PrintLayers(layers, extensions, prefix) ==
    Concat([i \in 1..Len(layers) |-> PrintLayer(layers, extensions, prefix, i)])

\* the divisor of the heap size, line 337
HeapSizeDivisor == 16777216

\* "    Heap %u: %llu MiB (0x%llx B) %s"
HeapLine(memory, heap) ==
    "    Heap " \o Dec(heap) \o ": "
        \o Dec(memory.memoryHeaps[heap + 1].size \div HeapSizeDivisor)
        \o " MiB (0x" \o Hex(memory.memoryHeaps[heap + 1].size) \o " B) "
        \o (IF HasBit(memory.memoryHeaps[heap + 1].flags,
                      VK_MEMORY_HEAP_DEVICE_LOCAL_BIT)
            THEN "DEVICE_LOCAL" ELSE "")

MemoryFlagsStr(flags) ==
       (IF HasBit(flags, VK_MEMORY_PROPERTY_DEVICE_LOCAL_BIT) THEN " DEVICE_LOCAL" ELSE "")
    \o (IF HasBit(flags, VK_MEMORY_PROPERTY_HOST_VISIBLE_BIT) THEN " HOST_VISIBLE" ELSE "")
    \o (IF HasBit(flags, VK_MEMORY_PROPERTY_HOST_COHERENT_BIT) THEN " COHERENT" ELSE "")
    \o (IF HasBit(flags, VK_MEMORY_PROPERTY_HOST_CACHED_BIT) THEN " CACHED" ELSE "")
    \o (IF HasBit(flags, VK_MEMORY_PROPERTY_LAZILY_ALLOCATED_BIT)
        THEN " LAZILY_ALLOCATED" ELSE "")

\* "      Type %u:%s"
TypeLine(memory, type) ==
    "      Type " \o Dec(type) \o ":"
        \o MemoryFlagsStr(memory.memoryTypes[type + 1].propertyFlags)

\* Fault variant of the test of line 342: != replaced by >.
TypeOfHeap_UpTo(memory, type, heap) == memory.memoryTypes[type + 1].heapIndex <= heap

\* the test of line 342: the type is printed in this pass of the heap loop
TypeOfHeap(memory, type, heap) == memory.memoryTypes[type + 1].heapIndex = heap

\* one pass of the heap loop: the heap's line, then the lines of its types
PrintHeap(memory, heap) ==
    <<HeapLine(memory, heap)>> \o
    Concat([k \in 1..memory.memoryTypeCount |->
               IF TypeOfHeap(memory, k - 1, heap)
               THEN <<TypeLine(memory, k - 1)>> ELSE <<>>])

PrintMemory(memory) ==
    Concat([k \in 1..memory.memoryHeapCount |-> PrintHeap(memory, k - 1)])

QueueFlagsStr(flags) ==
       (IF HasBit(flags, VK_QUEUE_GRAPHICS_BIT) THEN "G" ELSE "_")
    \o (IF HasBit(flags, VK_QUEUE_COMPUTE_BIT) THEN "C" ELSE "_")
    \o (IF HasBit(flags, VK_QUEUE_TRANSFER_BIT) THEN "T" ELSE "_")
    \o (IF HasBit(flags, VK_QUEUE_SPARSE_BINDING_BIT) THEN "S" ELSE "_")

PrintQueueFamily(qprops, family) ==
    << "    Queue Family " \o Dec(family) \o ": " \o Dec(qprops.queueCount) \o "x "
           \o QueueFlagsStr(qprops.queueFlags),
       "      timestampValidBits: " \o Dec(qprops.timestampValidBits) \o "b",
       "      minImageTransferGranularity: ("
           \o Dec(qprops.minImageTransferGranularity[1]) \o ","
           \o Dec(qprops.minImageTransferGranularity[2]) \o ","
           \o Dec(qprops.minImageTransferGranularity[3]) \o ")" >>

\* "  \"%s\" (%s) %u.%u.%u/%#x [%04x:%04x]"
GpuLine(properties) ==
    "  \"" \o properties.deviceName \o "\" ("
        \o VkPhysicalDeviceTypeStr(properties.deviceType) \o ") "
        \o VersionStr(properties.apiVersion) \o "/" \o HexAlt(properties.driverVersion)
        \o " [" \o Hex04(properties.vendorID) \o ":" \o Hex04(properties.deviceID) \o "]"

PrintGpuInfo(g) ==
       <<GpuLine(g.properties)>>
    \o PrintMemory(g.memory)
    \o Concat([k \in 1..Len(g.queue_families) |->
                  PrintQueueFamily(g.queue_families[k], k - 1)])
    \o (IF g.extensions # <<>>
        THEN <<"    Extensions [" \o Dec(Len(g.extensions)) \o "]:">>
             \o PrintExtensions(g.extensions, "      ")
        ELSE <<>>)
    \o (IF g.layers # <<>>
        THEN <<"    Layers [" \o Dec(Len(g.layers)) \o "]:">>
             \o PrintLayers(g.layers, g.layer_extensions, "      ")
        ELSE <<>>)

PrintInfo(v) ==
       <<"Instance Extensions [" \o Dec(Len(v.extensions)) \o "]:">>
    \o PrintExtensions(v.extensions, "  ")
    \o (IF v.layers # <<>>
        THEN <<"Instance Layers [" \o Dec(Len(v.layers)) \o "]:">>
             \o PrintLayers(v.layers, v.layer_extensions, "  ")
        ELSE <<>>)
    \o <<"PhysicalDevices [" \o Dec(Len(v.gpus)) \o "]:">>
    \o Concat([k \in 1..Len(v.gpus) |-> PrintGpuInfo(v.gpus[k])])

----------------------------------------------------------------------------
(* main *)

\* line 412
main_PrintInfo ==
    /\ pc = "PrintInfo"
    /\ out' = out \o PrintInfo(info)
    /\ Goto("return")
    /\ UNCHANGED <<info, count, layer, gpus, num_gpus, gpu, live, destroyed, ncalls,
                   lastCall,
                   retries, lastEnum, deviations, budget, world>>

\* line 413
main_Return ==
    /\ pc = "return"
    /\ pc' = "done"
    /\ exit' = "0"
    /\ Gone
    /\ UNCHANGED <<live, destroyed, ncalls, lastCall, deviations, budget, out, err,
                   world>>

----------------------------------------------------------------------------
(* Specifications *)

\* The device of the nominal run: one device-local heap of 256 MiB and one memory
\* type in it.
NominalWorld ==
    [apiVersion |-> MakeVersion(1, 0, 3),
     memory |-> [memoryTypeCount |-> 1,
                 memoryTypes |-> <<[propertyFlags |->
                                        VK_MEMORY_PROPERTY_DEVICE_LOCAL_BIT
                                        + VK_MEMORY_PROPERTY_HOST_VISIBLE_BIT,
                                    heapIndex |-> 0]>>,
                 memoryHeapCount |-> 1,
                 memoryHeaps |-> <<[size |-> 268435456,
                                    flags |-> VK_MEMORY_HEAP_DEVICE_LOCAL_BIT]>>]]

\* main, line 410: VulkanInfo info; nothing gathered, nothing written.
Start(w, b) ==
    /\ pc = "GatherInfo:layers(count)"
    /\ info = [extensions |-> <<>>, layers |-> <<>>, layer_extensions |-> <<>>,
               gpus |-> <<>>]
    /\ count = 0
    /\ layer = 0
    /\ gpus = <<>>
    /\ num_gpus = 0
    /\ gpu = 1
    /\ retries = 0
    /\ lastEnum = [what |-> "", retries |-> 0, reported |-> 0, length |-> 0]
    /\ live = {}
    /\ destroyed = {}
    /\ ncalls = 0
    /\ lastCall = [proc |-> "", arg |-> 0, result |-> VK_SUCCESS, reported |-> 0]
    /\ deviations = 0
    /\ budget = b
    /\ out = <<>>
    /\ err = <<>>
    /\ exit = "running"
    /\ world = w

Init == Start(NominalWorld, MaxDeviations)

Next ==
    \/ GatherInfo_LayersCount
    \/ GatherInfo_LayersData
    \/ EnumerateInstanceExtensions_Count
    \/ EnumerateInstanceExtensions_Data
    \/ GatherInfo_CreateInstance
    \/ GatherInfo_GpusCount
    \/ GatherInfo_GpusData
    \/ GatherInfo_Loop
    \/ GatherGpuInfo_Get
    \/ GatherGpuInfo_QueueFamiliesCount
    \/ GatherGpuInfo_QueueFamiliesData
    \/ GatherGpuInfo_LayersCount
    \/ GatherGpuInfo_LayersData
    \/ EnumerateDeviceExtensions_Count
    \/ EnumerateDeviceExtensions_Data
    \/ GatherGpuInfo_CreateDevice
    \/ GatherGpuInfo_DestroyDevice
    \/ GatherInfo_DestroyInstance
    \/ main_PrintInfo
    \/ main_Return

Spec == Init /\ [][Next]_vars

\* The same program with room for one more answer off the nominal run.
InitStale == Start(NominalWorld, MaxDeviations + 1)
SpecStale == InitStale /\ [][Next]_vars

\* Devices whose memory layout varies: any number of heaps and types within the
\* bounds, every type in any heap the device has (a type's heapIndex is that of
\* one of the device's heaps).  Heap 0 is the device-local heap of 256 MiB.
HeapOfWorld(h) ==
    [size |-> IF h = 0 THEN 268435456 ELSE h * 1048576 + 524288,
     flags |-> IF h % 2 = 0 THEN VK_MEMORY_HEAP_DEVICE_LOCAL_BIT ELSE 0]

MemoryWorlds ==
    UNION { { [apiVersion |-> NominalWorld.apiVersion,
               memory |-> [memoryTypeCount |-> nt,
                           memoryTypes |-> [t \in 1..nt |->
                                               [propertyFlags |-> (5 * (t - 1) + 3) % 32,
                                                heapIndex |-> f[t]]],
                           memoryHeapCount |-> nh,
                           memoryHeaps |-> [h \in 1..nh |-> HeapOfWorld(h - 1)]]] :
              f \in [1..nt -> 0..(nh - 1)] } :
            nh \in 0..MaxHeaps, nt \in 0..MaxTypes }

InitMemory == \E w \in MemoryWorlds : Start(w, 0)
SpecMemory == InitMemory /\ [][Next]_vars

\* The largest value of a 10-bit and of a 12-bit field (the masks 0x3FF, 0xFFF).
Max10 == 1023
Max12 == 4095

\* The values within EdgeWidth of both ends of 0..max.
Edge(max) == (0..EdgeWidth) \cup ((max - EdgeWidth)..max)

InitVersion ==
    \E major \in Edge(Max10), minor \in Edge(Max10), patch \in Edge(Max12) :
        Start([NominalWorld EXCEPT !.apiVersion = MakeVersion(major, minor, patch)], 0)
SpecVersion == InitVersion /\ [][Next]_vars

----------------------------------------------------------------------------
(* Vocabulary of the properties *)

CountQueries ==
    { "vkEnumerateInstanceLayerProperties (count)",
      "vkEnumerateInstanceExtensionProperties (count)",
      "vkEnumeratePhysicalDevices (count)",
      "vkEnumerateDeviceLayerProperties (count)",
      "vkEnumerateDeviceExtensionProperties (count)" }

RetryFetches ==
    { "vkEnumerateInstanceLayerProperties (data)",
      "vkEnumerateInstanceExtensionProperties (data)",
      "vkEnumeratePhysicalDevices (data)",
      "vkEnumerateDeviceLayerProperties (data)",
      "vkEnumerateDeviceExtensionProperties (data)" }

RetryEnumerations ==
    { "vkEnumerateInstanceLayerProperties", "vkEnumerateInstanceExtensionProperties",
      "vkEnumeratePhysicalDevices", "vkEnumerateDeviceLayerProperties",
      "vkEnumerateDeviceExtensionProperties" }

QueueFamilies == "vkGetPhysicalDeviceQueueFamilyProperties"

StartsWith(line, prefix) ==
    Len(line) >= Len(prefix) /\ SubSeq(line, 1, Len(prefix)) = prefix

Lines(stream) == { stream[j] : j \in 1..Len(stream) }

\* block is printed, whole and in order, somewhere in stream
Printed(block, stream) ==
    \E j \in 0..(Len(stream) - Len(block)) :
        SubSeq(stream, j + 1, j + Len(block)) = block

Largest(S) == CHOOSE x \in S : \A y \in S : y <= x

\* The snapshot is complete and still in memory: GatherInfo has returned.
Gathered == pc \in {"PrintInfo", "return"}
\* ... and PrintInfo has returned too.
Rendered == pc = "return"

\* The part of stdout that PrintGpuInfo wrote for info.gpus[k].
GpuFirst(k) == CHOOSE j \in 1..Len(out) : out[j] = GpuLine(info.gpus[k].properties)
GpuLast(k) == IF k = Len(info.gpus) THEN Len(out) ELSE GpuFirst(k + 1) - 1

----------------------------------------------------------------------------
(* C1 *)

\* C1: when a status-returning runtime call answers neither VK_SUCCESS nor
\* VK_INCOMPLETE, the process ends with status 1, standard error holds exactly one
\* line and it names that call, standard output is empty, and no runtime call
\* follows; nothing is written to standard output before GatherInfo has finished
\* with every device and destroyed the instance.
C1_FatalStatusEndsRun ==
    /\ [](lastCall.result \notin {VK_SUCCESS, VK_INCOMPLETE} =>
            /\ exit = "1"
            /\ Len(err) = 1
            /\ StartsWith(err[1], lastCall.proc \o " failed: ")
            /\ out = <<>>)
    /\ [](out # <<>> => pc \in {"return", "done"} /\ "instance" \in destroyed)
    /\ [][exit # "running" => ncalls' = ncalls]_vars

\* vkCreateDevice fails for the second device, with a status die has no name for.
C1_Witness ==
    /\ lastCall.proc = "vkCreateDevice"
    /\ lastCall.result = UnknownResult
    /\ "device1" \in destroyed
    /\ exit = "1"
    /\ err = <<"vkCreateDevice failed: <unknown VkResult> (-1000)">>

----------------------------------------------------------------------------
(* C2 *)

\* C2 as stated: VK_INCOMPLETE from an enumeration call, count query or data fetch,
\* never ends the run.
C2_IncompleteNeverFatal ==
    (lastCall.result = VK_INCOMPLETE /\ lastCall.proc \in CountQueries \cup RetryFetches)
        => exit = "running"

\* C2 as amended: VK_INCOMPLETE from the data fetch of an enumeration (instance or
\* device extensions, instance or device layers, physical devices) never ends the
\* run: the next runtime call is the same fetch with the buffer resized to the
\* count just reported.  VK_INCOMPLETE from a count query is fatal like any other
\* status but VK_SUCCESS.
C2_IncompleteRetriedOnFetch ==
    /\ []((lastCall.result = VK_INCOMPLETE /\ lastCall.proc \in RetryFetches) =>
            exit = "running" /\ retries >= 1)
    /\ []((lastCall.result = VK_INCOMPLETE /\ lastCall.proc \in CountQueries) =>
            exit = "1" /\ err = <<lastCall.proc \o " failed: VK_INCOMPLETE (5)">>)
    /\ [][(lastCall.result = VK_INCOMPLETE /\ lastCall.proc \in RetryFetches) =>
            /\ ncalls' = ncalls + 1
            /\ lastCall'.proc = lastCall.proc
            /\ lastCall'.arg = lastCall.reported]_vars

\* A device-layer fetch answered VK_INCOMPLETE once and then succeeded.
C2_Witness ==
    /\ lastCall.proc = "vkEnumerateDeviceLayerProperties (data)"
    /\ lastCall.result = VK_SUCCESS
    /\ retries = 1
    /\ exit = "running"

----------------------------------------------------------------------------
(* C3 *)

\* C3: when an enumeration's fetch answered VK_INCOMPLETE one or more times and
\* then VK_SUCCESS, the buffer collected has as many elements as that last fetch
\* reported.
C3_LengthIsLastCount ==
    (lastEnum.what \in RetryEnumerations /\ lastEnum.retries >= 1)
        => lastEnum.length = lastEnum.reported

----------------------------------------------------------------------------
(* C4 *)

\* C4 as stated: whenever the process has ended, by return from main or by the
\* fatal exit, no handle it created is left undestroyed.
C4_NoHandleLeftAcquired == exit # "running" => live = {}

\* C4 as amended: when main returns, the instance and every trial device created
\* have been destroyed; each trial device is destroyed before the next device is
\* gathered, and the instance after the last device and before any report output.
\* When the process ends otherwise, no trial device is left, but the instance is
\* left undestroyed if it had been created.
C4_HandlesReleasedOnReturn ==
    /\ exit = "0" => live = {}
    /\ exit # "running" => live \subseteq {"instance"}
    /\ pc = "GatherGpuInfo:get" =>
          /\ live = {"instance"}
          /\ \A k \in 1..(gpu - 1) : ("device" \o Dec(k)) \in destroyed
    /\ (pc = "PrintInfo" \/ out # <<>>) =>
          /\ live = {}
          /\ "instance" \in destroyed
    /\ pc = "PrintInfo" =>
          \A k \in 1..Len(info.gpus) : ("device" \o Dec(k)) \in destroyed

\* main has returned after two devices were tried.
C4_Witness ==
    /\ exit = "0"
    /\ destroyed = {"instance", "device1", "device2"}
    /\ out # <<>>

----------------------------------------------------------------------------
(* C5 *)

\* C5: every heap of every gathered device is printed with its size in MiB, the
\* byte size divided by 2^20; the heap of 268435456 bytes flagged device-local
\* reads "256 MiB (0x10000000 B) DEVICE_LOCAL".
C5_HeapSizeInMiB ==
    Rendered =>
        \A k \in 1..Len(info.gpus) :
            \A h \in 1..info.gpus[k].memory.memoryHeapCount :
                LET heap == info.gpus[k].memory.memoryHeaps[h] IN
                /\ ("    Heap " \o Dec(h - 1) \o ": " \o Dec(heap.size \div 1048576)
                        \o " MiB (0x" \o Hex(heap.size) \o " B) "
                        \o (IF HasBit(heap.flags, VK_MEMORY_HEAP_DEVICE_LOCAL_BIT)
                            THEN "DEVICE_LOCAL" ELSE "")) \in Lines(out)
                /\ (heap.size = 268435456
                        /\ HasBit(heap.flags, VK_MEMORY_HEAP_DEVICE_LOCAL_BIT)) =>
                      ("    Heap " \o Dec(h - 1)
                          \o ": 256 MiB (0x10000000 B) DEVICE_LOCAL") \in Lines(out)

----------------------------------------------------------------------------
(* C6 *)

TypePlaces(k, t) ==
    { j \in GpuFirst(k)..GpuLast(k) : out[j] = TypeLine(info.gpus[k].memory, t) }
HeapPlaces(k) ==
    { j \in GpuFirst(k)..GpuLast(k) :
        \E h \in 0..(info.gpus[k].memory.memoryHeapCount - 1) :
            out[j] = HeapLine(info.gpus[k].memory, h) }

----------------------------------------------------------------------------
(* C7 *)

\* C7: for major and minor in 0..1023 and patch in 0..4095, the three Extract
\* functions applied to (major << 22 | minor << 12 | patch) give back major, minor
\* and patch, and the device's line prints them as "major.minor.patch".
C7_VersionRoundTrip ==
    Rendered =>
        \A major \in Edge(Max10), minor \in Edge(Max10), patch \in Edge(Max12) :
            world.apiVersion = MakeVersion(major, minor, patch) =>
                \A k \in 1..Len(info.gpus) :
                    LET version == info.gpus[k].properties.apiVersion IN
                    /\ ExtractMajorVersion(version) = major
                    /\ ExtractMinorVersion(version) = minor
                    /\ ExtractPatchVersion(version) = patch
                    /\ \E line \in Lines(out) :
                          StartsWith(line,
                              "  \"" \o info.gpus[k].properties.deviceName
                                  \o "\" (DISCRETE_GPU) " \o Dec(major) \o "." \o Dec(minor)
                                  \o "." \o Dec(patch) \o "/")

\* Every field at its maximum, rendered.
C7_Witness ==
    /\ Rendered
    /\ world.apiVersion = MakeVersion(Max10, Max10, Max12)
    /\ "  \"gpu1\" (DISCRETE_GPU) 1023.1023.4095/0x10 [1002:0001]" \in Lines(out)

----------------------------------------------------------------------------
(* C8 *)

\* layer_extensions has an entry per layer, entry i holds nothing but extensions
\* the runtime returned for a query with layers[i].layerName.
Aligned(scope, layers, layer_extensions) ==
    /\ Len(layer_extensions) = Len(layers)
    /\ \A i \in 1..Len(layers) :
          \A j \in 1..Len(layer_extensions[i]) :
              layer_extensions[i][j] \in
                  { RtExtension(scope, layers[i].layerName, n) : n \in 1..MaxCount }

\* C8: in a complete snapshot, at instance scope and for each device, the
\* layer-extension collection has one entry per layer, entry i holds only
\* extensions the runtime returned for the query made with layer i's name, and the
\* report prints entry i under layer i.
C8_LayerExtensionsAligned ==
    /\ Gathered =>
          /\ Aligned("instance", info.layers, info.layer_extensions)
          /\ \A k \in 1..Len(info.gpus) :
                Aligned(info.gpus[k].properties.deviceName, info.gpus[k].layers,
                        info.gpus[k].layer_extensions)
    /\ Rendered =>
          /\ \A i \in 1..Len(info.layers) :
                Printed(PrintLayer(info.layers, info.layer_extensions, "  ", i), out)
          /\ \A k \in 1..Len(info.gpus) :
                \A i \in 1..Len(info.gpus[k].layers) :
                    Printed(PrintLayer(info.gpus[k].layers,
                                       info.gpus[k].layer_extensions, "      ", i),
                            SubSeq(out, GpuFirst(k), GpuLast(k)))

----------------------------------------------------------------------------
(* C9 *)

----------------------------------------------------------------------------
(* C10 *)

\* C10: once vkEnumeratePhysicalDevices has succeeded, info.gpus has one snapshot
\* per handle the loop iterates, so no index is out of range and the run does not
\* abort.
C10_SnapshotPerHandle ==
    /\ pc = "GatherInfo:loop" => Len(info.gpus) = Len(gpus)
    /\ exit # "abort"

====
